---------------------------- MODULE Spec2Model ----------------------------
(***************************************************************************)
(* Model of the in-memory CRUD procedures of packages/orpc:                *)
(*   procedures/user.ts  (mockUsers and its handlers)                      *)
(*   procedures/post.ts  (mockPosts and its handlers)                      *)
(* Every handler is an async function without an await in its body, so a   *)
(* call runs to completion on the event loop: one action per handler.      *)
(*                                                                         *)
(* Text values that the code takes apart (title, slug) are sequences of    *)
(* one-character strings; other text values are atoms.  A Date is a        *)
(* natural number read from the variable clock.  crypto.randomUUID() is a  *)
(* fresh value: a counter per store.  An optional input field that is not  *)
(* supplied is absent from the DOMAIN of the input record, so the object   *)
(* spread {...record, ...input.data} is function override.                 *)
(***************************************************************************)
EXTENDS Integers, Sequences, FiniteSets, TLC

VARIABLES mockUsers, mockPosts, clock, nextUserId, nextPostId, calls, last,
          before, sorted, http, client, views, inflight

vars == <<mockUsers, mockPosts, clock, nextUserId, nextPostId, calls, last,
          before, sorted, http, client, views, inflight>>

---------------------------------------------------------------------------
(* Bounds of the model *)

MaxClock == 1
MaxUserId == 4
MaxPosts == 4
MaxCalls == 2
MaxPage == 2
MaxRequests == 2

---------------------------------------------------------------------------
(* Values shared by the two stores *)

\* no error was thrown, and the state of the route handler before a request
NoThrow == [name |-> "", message |-> ""]
Idle ==
  [phase |-> "idle", segments |-> <<>>, input |-> <<>>, seen |-> 0,
   status |-> 0, error |-> NoThrow]

\* the fetch wrapper of the client before it is called
NotFetching ==
  [pc |-> "idle", enableRetries |-> FALSE, maxRetries |-> 0, retries |-> 0,
   attempts |-> 0, timer |-> "none", aborted |-> FALSE, withAborted |-> FALSE,
   response |-> 0, lastError |-> "null", outcome |-> "none"]

\* JavaScript null and undefined held by a string-typed field of a record
Null == "null"
Undefined == "undefined"
\* the message of no thrown Error
NoError == "ok"

\* a || b on string-typed values
OrElse(a, b) == IF a \in {Null, Undefined, ""} THEN b ELSE a

\* the function f, evaluated once on all of its domain
Table(f) == f @@ <<>>

\* an optional field of an input: not supplied, or one of vals
Opt(f, vals) == {<<>>} \cup {f :> v : v \in vals}

Has(input, f) == f \in DOMAIN input

\* {...record, ...data}
Spread(record, data) ==
  [f \in DOMAIN record \cup DOMAIN data |->
     IF f \in DOMAIN data THEN data[f] ELSE record[f]]

\* Map.prototype.get; undefined is the record without fields, which is what
\* {...undefined} spreads to
MapGet(map, id) == IF id \in DOMAIN map THEN map[id] ELSE <<>>

\* Map.prototype.set, Map.prototype.delete
MapSet(map, id, rec) == [k \in DOMAIN map \cup {id} |-> IF k = id THEN rec ELSE map[k]]
MapDelete(map, id) == [k \in DOMAIN map \ {id} |-> map[k]]

---------------------------------------------------------------------------
(* procedures/user.ts *)

Emails == {"admin@example.com", "john@example.com", "new@example.com"}
Usernames == {"admin", "johndoe"}
AvatarUrl == "https://example.com/a.png"

UserIds == 1..MaxUserId

\* the ids passed to the handlers: those generated so far, and the next one,
\* which stands for an id that was never in the store
UserIdInputs == {id \in UserIds : id <= nextUserId}

\* the inputs of createUser: the required fields, and at most one of the
\* optional ones
CreateUserInputs ==
  { [email |-> e, password |-> "User123!", name |-> "John Doe"] @@ o :
      e \in Emails,
      o \in Opt("username", Usernames) \cup Opt("avatar", {AvatarUrl})
            \cup Opt("role", {"moderator"}) }

\* the data of updateUser: any of email and username, or one other field
UpdateUserInputs ==
  { e @@ u : e \in Opt("email", Emails), u \in Opt("username", Usernames) }
    \cup Opt("name", {"Admin User"}) \cup Opt("avatar", {Null})
    \cup Opt("role", {"moderator"}) \cup Opt("status", {"suspended"})

createMockUser_NoUsername(input, id, now) ==
  [ id |-> id,
    email |-> input.email,
    name |-> input.name,
    username |-> Undefined,
    avatar |-> IF Has(input, "avatar") THEN OrElse(input.avatar, Null) ELSE Null,
    role |-> IF Has(input, "role") THEN OrElse(input.role, "user") ELSE "user",
    status |-> "active",
    createdAt |-> now,
    updatedAt |-> now ]

\* createMockUser: the record it builds
createMockUser(input, id, now) ==
  [ id |-> id,
    email |-> input.email,
    name |-> input.name,
    username |-> IF Has(input, "username") THEN input.username ELSE Undefined,
    avatar |-> IF Has(input, "avatar") THEN OrElse(input.avatar, Null) ELSE Null,
    role |-> IF Has(input, "role") THEN OrElse(input.role, "user") ELSE "user",
    status |-> "active",
    createdAt |-> now,
    updatedAt |-> now ]

\* the module's seeding block
SeedUsers ==
  LET u1 == createMockUser([email |-> "admin@example.com", password |-> "Admin123!",
                            name |-> "Admin User", username |-> "admin",
                            role |-> "admin"], 1, 0)
      u2 == createMockUser([email |-> "john@example.com", password |-> "User123!",
                            name |-> "John Doe", username |-> "johndoe"], 2, 0)
  IN MapSet(MapSet(<<>>, 1, u1), 2, u2)

\* the public projection returned by getUser
PublicUser(u) ==
  [ id |-> u.id, name |-> u.name, username |-> u.username, avatar |-> u.avatar,
    role |-> u.role, createdAt |-> u.createdAt, updatedAt |-> u.updatedAt ]

\* getUser: [err, ret]
getUserResult(users, id) ==
  IF id \notin DOMAIN users
  THEN [err |-> "User not found", ret |-> Null]
  ELSE [err |-> NoError, ret |-> PublicUser(users[id])]

createUserError_NoEmailCheck(users, input) ==
  IF Has(input, "username") /\ input.username # ""
     /\ \E k \in DOMAIN users : users[k].username = input.username
  THEN "Username already taken"
  ELSE NoError

\* createUser: the error it throws, if any
createUserError(users, input) ==
  IF \E k \in DOMAIN users : users[k].email = input.email
  THEN "Email already exists"
  ELSE IF Has(input, "username") /\ input.username # ""
          /\ \E k \in DOMAIN users : users[k].username = input.username
  THEN "Username already taken"
  ELSE NoError

updateUserError_NoUsernameCheck(users, id, data) ==
  IF id \notin DOMAIN users
  THEN "User not found"
  ELSE IF Has(data, "email") /\ data.email # "" /\ data.email # users[id].email
          /\ \E k \in DOMAIN users : users[k].email = data.email
  THEN "Email already exists"
  ELSE NoError

updateUserError_NoNotFound(users, id, data) ==
  IF id \notin DOMAIN users
  THEN NoError
  ELSE IF Has(data, "email") /\ data.email # "" /\ data.email # users[id].email
          /\ \E k \in DOMAIN users : users[k].email = data.email
  THEN "Email already exists"
  ELSE IF Has(data, "username") /\ data.username # ""
          /\ data.username # users[id].username
          /\ \E k \in DOMAIN users : users[k].username = data.username
  THEN "Username already taken"
  ELSE NoError

\* updateUser: the error it throws, if any
updateUserError(users, id, data) ==
  IF id \notin DOMAIN users
  THEN "User not found"
  ELSE IF Has(data, "email") /\ data.email # "" /\ data.email # users[id].email
          /\ \E k \in DOMAIN users : users[k].email = data.email
  THEN "Email already exists"
  ELSE IF Has(data, "username") /\ data.username # ""
          /\ data.username # users[id].username
          /\ \E k \in DOMAIN users : users[k].username = data.username
  THEN "Username already taken"
  ELSE NoError

updatedUser_NoRefresh(user, data, now) == Spread(user, data)

\* updateUser: the record it stores
updatedUser(user, data, now) == Spread(Spread(user, data), [updatedAt |-> now])

\* deleteUser: the error it throws, if any
deleteUserError(users, id) ==
  IF id \notin DOMAIN users THEN "User not found" ELSE NoError

\* the handlers of userRouter and of postRouter
UserOps == {"getUser", "getUserByEmail", "listUsers", "createUser",
            "updateUser", "deleteUser"}
PostOps == {"getPost", "listPosts", "createPost", "updatePost", "deletePost",
            "publishPost", "getPostStats"}
\* the handlers that assign to no record and call no method of a store but
\* values(); the model follows a behaviour up to its first call of one
ReadOps == {"getUserByEmail", "listUsers", "listPosts", "getPostStats"}

\* No handler of one store reads or writes the other, so the calls of one
\* behaviour all go to the store of its first call.
SameStore(op) ==
  \/ last.op \notin UserOps \cup PostOps
  \/ (op \in UserOps) = (last.op \in UserOps)

\* the requests that the server can have accepted and not yet answered
Requests == 1..MaxRequests
NoRequest == [pc |-> "idle", op |-> "", input |-> <<>>, err |-> NoError]

\* a handler has no await: once the procedure of a request is called, the
\* handler runs to its return or its throw before any other code runs, and
\* the request whose handler is running has its promise settled by that
Settled(err) ==
  [r \in DOMAIN inflight |->
     IF inflight[r].pc = "running"
     THEN [inflight[r] EXCEPT !.pc = "settled", !.err = err]
     ELSE inflight[r]]

\* the number of calls of getPost that have returned the post id
Views(id) == IF id \in DOMAIN views THEN views[id] ELSE 0

\* a call of a handler: what was called with what, the message of the Error
\* it threw (NoError when it returned), and the handler's store as the call
\* found it
Called(op, id, input, err) ==
  /\ calls < MaxCalls
  /\ last.op \notin ReadOps
  /\ SameStore(op)
  /\ calls' = calls + 1
  /\ last' = [op |-> op, id |-> id, input |-> input, err |-> err]
  /\ before' = IF op \in UserOps THEN mockUsers ELSE mockPosts
  /\ sorted' = <<>>
  /\ views' = IF op = "getPost" /\ err = NoError
              THEN MapSet(views, id, Views(id) + 1) ELSE views
  /\ inflight' = Settled(err)
  /\ UNCHANGED <<http, client>>

\* a call of a handler of ReadOps: it returns, and its array of records
\* (their ids) is one of arrs, what Array.prototype.sort can leave
Read(op, input, arrs) ==
  /\ last.op \notin ReadOps
  /\ SameStore(op)
  /\ calls' = calls + 1
  /\ last' = [op |-> op, id |-> 0, input |-> input, err |-> NoError]
  /\ before' = IF op \in UserOps THEN mockUsers ELSE mockPosts
  /\ \E arr \in arrs : sorted' = arr
  /\ UNCHANGED <<mockUsers, mockPosts, clock, nextUserId, nextPostId, http,
                 client, views, inflight>>

getUser(id) ==
  /\ Called("getUser", id, <<>>, getUserResult(mockUsers, id).err)
  /\ UNCHANGED <<mockUsers, mockPosts, clock, nextUserId, nextPostId>>

createUser(input) ==
  LET err == createUserError(mockUsers, input) IN
  /\ nextUserId <= MaxUserId
  /\ Called("createUser", IF err = NoError THEN nextUserId ELSE 0, input, err)
  /\ IF err = NoError
     THEN /\ mockUsers' = MapSet(mockUsers, nextUserId,
                                 createMockUser(input, nextUserId, clock))
          /\ nextUserId' = nextUserId + 1
     ELSE UNCHANGED <<mockUsers, nextUserId>>
  /\ UNCHANGED <<mockPosts, clock, nextPostId>>

updateUser(id, data) ==
  LET err == updateUserError(mockUsers, id, data) IN
  /\ Called("updateUser", id, data, err)
  /\ IF err = NoError
     THEN mockUsers' = MapSet(mockUsers, id,
                              updatedUser(MapGet(mockUsers, id), data, clock))
     ELSE UNCHANGED mockUsers
  /\ UNCHANGED <<mockPosts, clock, nextUserId, nextPostId>>

deleteUser(id) ==
  LET err == deleteUserError(mockUsers, id) IN
  /\ Called("deleteUser", id, <<>>, err)
  /\ IF err = NoError
     THEN mockUsers' = MapDelete(mockUsers, id)
     ELSE UNCHANGED mockUsers
  /\ UNCHANGED <<mockPosts, clock, nextUserId, nextPostId>>

---------------------------------------------------------------------------
(* procedures/post.ts *)

\* 'Getting Started with ORPC'
TitleGettingStarted ==
  <<"G", "e", "t", "t", "i", "n", "g", " ", "S", "t", "a", "r", "t", "e",
    "d", " ", "w", "i", "t", "h", " ", "O", "R", "P", "C">>

\* 'Building Type-Safe APIs'
TitleBuilding ==
  <<"B", "u", "i", "l", "d", "i", "n", "g", " ", "T", "y", "p", "e", "-",
    "S", "a", "f", "e", " ", "A", "P", "I", "s">>

\* 'Hello World'
TitleHelloWorld ==
  <<"H", "e", "l", "l", "o", " ", "W", "o", "r", "l", "d">>

\* 'hello-world'
SlugHelloWorld ==
  <<"h", "e", "l", "l", "o", "-", "w", "o", "r", "l", "d">>

\* 'building-type-safe-apis'
SlugBuilding ==
  <<"b", "u", "i", "l", "d", "i", "n", "g", "-", "t", "y", "p", "e", "-",
    "s", "a", "f", "e", "-", "a", "p", "i", "s">>

\* 'ORPC is a powerful RPC framework for TypeScript...'
ContentOrpc ==
  <<"O", "R", "P", "C", " ", "i", "s", " ", "a", " ", "p", "o", "w", "e",
    "r", "f", "u", "l", " ", "R", "P", "C", " ", "f", "r", "a", "m", "e",
    "w", "o", "r", "k", " ", "f", "o", "r", " ", "T", "y", "p", "e", "S",
    "c", "r", "i", "p", "t", ".", ".", ".">>

\* 'Type safety is crucial for modern web development...'
ContentTypeSafety ==
  <<"T", "y", "p", "e", " ", "s", "a", "f", "e", "t", "y", " ", "i", "s",
    " ", "c", "r", "u", "c", "i", "a", "l", " ", "f", "o", "r", " ", "m",
    "o", "d", "e", "r", "n", " ", "w", "e", "b", " ", "d", "e", "v", "e",
    "l", "o", "p", "m", "e", "n", "t", ".", ".", ".">>

\* 'Learn how to get started with ORPC'
ExcerptOrpc ==
  <<"L", "e", "a", "r", "n", " ", "h", "o", "w", " ", "t", "o", " ", "g",
    "e", "t", " ", "s", "t", "a", "r", "t", "e", "d", " ", "w", "i", "t",
    "h", " ", "O", "R", "P", "C">>

\* '0123456789'
ContentDigits ==
  <<"0", "1", "2", "3", "4", "5", "6", "7", "8", "9">>

\* 'ABCDEFGHIJKLMNOPQRSTUVWXYZ'
UpperCase ==
  <<"A", "B", "C", "D", "E", "F", "G", "H", "I", "J", "K", "L", "M", "N",
    "O", "P", "Q", "R", "S", "T", "U", "V", "W", "X", "Y", "Z">>

\* 'abcdefghijklmnopqrstuvwxyz'
LowerCase ==
  <<"a", "b", "c", "d", "e", "f", "g", "h", "i", "j", "k", "l", "m", "n",
    "o", "p", "q", "r", "s", "t", "u", "v", "w", "x", "y", "z">>

\* '0123456789'
Digits ==
  <<"0", "1", "2", "3", "4", "5", "6", "7", "8", "9">>

ImageUrl == "https://example.com/image.jpg"
\* null held by a text-valued field (a sequence of characters)
NullText == <<Null>>
\* null held by a Date-valued field
NullDate == -1

Titles == {TitleGettingStarted, TitleHelloWorld}
Slugs == {SlugHelloWorld, SlugBuilding}

Min(a, b) == IF a < b THEN a ELSE b

\* String.prototype.toLowerCase, one character
LowerChar(c) ==
  IF \E i \in 1..Len(UpperCase) : UpperCase[i] = c
  THEN LowerCase[CHOOSE i \in 1..Len(UpperCase) : UpperCase[i] = c]
  ELSE c

toLowerCase(s) == [i \in 1..Len(s) |-> LowerChar(s[i])]

\* the character class [a-z0-9]
IsAlnum(c) ==
  \/ \E i \in 1..Len(LowerCase) : LowerCase[i] = c
  \/ \E i \in 1..Len(Digits) : Digits[i] = c

ReplaceRuns_EachCharacter(s) ==
  [i \in 1..Len(s) |-> IF IsAlnum(s[i]) THEN s[i] ELSE "-"]

\* .replace(/[^a-z0-9]+/g, '-')
RECURSIVE ReplaceRuns(_)
ReplaceRuns(s) ==
  IF s = <<>> THEN <<>>
  ELSE IF IsAlnum(Head(s)) THEN <<Head(s)>> \o ReplaceRuns(Tail(s))
  ELSE IF Len(s) > 1 /\ ~IsAlnum(s[2]) THEN ReplaceRuns(Tail(s))
  ELSE <<"-">> \o ReplaceRuns(Tail(s))

\* .replace(/^-+|-+$/g, '')
RECURSIVE StripHyphens(_)
StripHyphens(s) ==
  IF s = <<>> THEN <<>>
  ELSE IF Head(s) = "-" THEN StripHyphens(Tail(s))
  ELSE IF s[Len(s)] = "-" THEN StripHyphens(SubSeq(s, 1, Len(s) - 1))
  ELSE s

generateSlug(title) == StripHyphens(ReplaceRuns(toLowerCase(title)))

\* String.prototype.substring(0, n)
Substring0(s, n) == SubSeq(s, 1, Min(n, Len(s)))

PostIds == {2 * n : n \in 1..MaxPosts}

\* the ids passed to the handlers: those generated so far, and the next one,
\* which stands for an id that was never in the store
PostIdInputs == {id \in PostIds : id <= nextPostId + 1}

\* the inputs of createPost: the required fields, and at most one of the
\* optional ones
CreatePostInputs ==
  { [title |-> t, content |-> ContentDigits] @@ o :
      t \in Titles,
      o \in Opt("slug", Slugs) \cup Opt("published", BOOLEAN)
            \cup Opt("excerpt", {ExcerptOrpc}) \cup Opt("category", {"business"})
            \cup Opt("tags", {<<"api">>}) \cup Opt("featuredImage", {ImageUrl})
            \cup Opt("status", {"published"}) }

\* the data of updatePost: at most one field
UpdatePostInputs ==
  Opt("slug", Slugs) \cup Opt("published", BOOLEAN)
    \cup Opt("title", {TitleHelloWorld}) \cup Opt("content", {ContentDigits})
    \cup Opt("excerpt", {NullText}) \cup Opt("category", {"business"})
    \cup Opt("tags", {<<"api">>}) \cup Opt("featuredImage", {Null})
    \cup Opt("status", {"archived"})

\* createMockPost: the record it builds
createMockPost(input, id, now) ==
  [ id |-> id,
    title |-> input.title,
    slug |-> IF Has(input, "slug") /\ input.slug # <<>>
             THEN input.slug ELSE generateSlug(input.title),
    content |-> input.content,
    excerpt |-> IF Has(input, "excerpt") /\ input.excerpt # <<>>
                THEN input.excerpt
                ELSE Substring0(input.content, 200) \o <<".", ".", ".">>,
    authorId |-> input.authorId,
    status |-> IF Has(input, "status") THEN OrElse(input.status, "draft") ELSE "draft",
    category |-> IF Has(input, "category") THEN OrElse(input.category, "other")
                 ELSE "other",
    tags |-> IF Has(input, "tags") THEN input.tags ELSE <<>>,
    featuredImage |-> IF Has(input, "featuredImage")
                      THEN OrElse(input.featuredImage, Null) ELSE Null,
    published |-> Has(input, "published") /\ input.published,
    publishedAt |-> IF Has(input, "published") /\ input.published THEN now
                    ELSE NullDate,
    viewCount |-> 0,
    createdAt |-> now,
    updatedAt |-> now ]

\* the module's seeding block; the two randomUUID() calls of one post are
\* the author id (odd) and the post id (even)
SeedPosts ==
  LET p1 == createMockPost([title |-> TitleGettingStarted, content |-> ContentOrpc,
                            excerpt |-> ExcerptOrpc, authorId |-> 1,
                            category |-> "technology",
                            tags |-> <<"orpc", "typescript", "rpc">>,
                            published |-> TRUE], 2, 0)
      p2 == createMockPost([title |-> TitleBuilding, content |-> ContentTypeSafety,
                            authorId |-> 3, category |-> "technology",
                            tags |-> <<"typescript", "api", "type-safety">>,
                            status |-> "draft"], 4, 0)
  IN MapSet(MapSet(<<>>, 2, p1), 4, p2)

\* the public projection returned by getPost
PublicPost(p) ==
  [ id |-> p.id, title |-> p.title, slug |-> p.slug, content |-> p.content,
    excerpt |-> p.excerpt, authorId |-> p.authorId, category |-> p.category,
    tags |-> p.tags, featuredImage |-> p.featuredImage, published |-> p.published,
    publishedAt |-> p.publishedAt, createdAt |-> p.createdAt,
    updatedAt |-> p.updatedAt,
    author |-> [id |-> p.authorId, name |-> "John Doe", avatar |-> Null] ]

\* getPost: the error it throws, if any
getPostError(posts, id) ==
  IF id \notin DOMAIN posts THEN "Post not found" ELSE NoError

\* getPost: the store after the view count is incremented
getPostStore_CountsTwice(posts, id) ==
  MapSet(posts, id, [posts[id] EXCEPT !.viewCount = @ + 2])

getPostStore(posts, id) ==
  MapSet(posts, id, [posts[id] EXCEPT !.viewCount = @ + 1])

\* createPost: the error it throws, if any
createPostError(posts, input) ==
  IF Has(input, "slug") /\ input.slug # <<>>
     /\ \E k \in DOMAIN posts : posts[k].slug = input.slug
  THEN "Slug already exists"
  ELSE NoError

updatePostError_NoOwnCheck(posts, id, data) ==
  IF id \notin DOMAIN posts
  THEN "Post not found"
  ELSE IF Has(data, "slug") /\ data.slug # <<>>
          /\ \E k \in DOMAIN posts : posts[k].slug = data.slug
  THEN "Slug already exists"
  ELSE NoError

\* updatePost: the error it throws, if any
updatePostError(posts, id, data) ==
  IF id \notin DOMAIN posts
  THEN "Post not found"
  ELSE IF Has(data, "slug") /\ data.slug # <<>> /\ data.slug # posts[id].slug
          /\ \E k \in DOMAIN posts : posts[k].slug = data.slug
  THEN "Slug already exists"
  ELSE NoError

updatePublishedAt_Never(post, data, now) == post.publishedAt

updatePublishedAt_Always(post, data, now) ==
  IF Has(data, "published") /\ data.published THEN now ELSE post.publishedAt

\* updatePost: the publishedAt of the record it stores
updatePublishedAt(post, data, now) ==
  IF Has(data, "published") /\ data.published /\ ~post.published
  THEN now ELSE post.publishedAt

updatedPost_ResetsViewCount(post, data, now) ==
  Spread(Spread(post, data),
         [updatedAt |-> now, publishedAt |-> updatePublishedAt(post, data, now),
          viewCount |-> 0])

\* updatePost: the record it stores
updatedPost(post, data, now) ==
  Spread(Spread(post, data),
         [updatedAt |-> now, publishedAt |-> updatePublishedAt(post, data, now)])

deletePostError_Never(posts, id) == NoError

\* deletePost: the error it throws, if any
deletePostError(posts, id) ==
  IF id \notin DOMAIN posts THEN "Post not found" ELSE NoError

\* publishPost: the error it throws, if any
publishPostError(posts, id) ==
  IF id \notin DOMAIN posts THEN "Post not found" ELSE NoError

publishPublishedAt_AlwaysNow(post, published, now) ==
  IF published THEN now ELSE post.publishedAt

\* publishPost: the publishedAt of the record it stores
publishPublishedAt(post, published, now) ==
  IF published
  THEN (IF post.publishedAt # NullDate THEN post.publishedAt ELSE now)
  ELSE post.publishedAt

\* publishPost: the record it stores
publishedPost(post, published, now) ==
  [post EXCEPT !.published = published,
               !.publishedAt = publishPublishedAt(post, published, now),
               !.status = IF published THEN "published" ELSE "draft",
               !.updatedAt = now]

getPost(id) ==
  LET err == getPostError(mockPosts, id) IN
  /\ Called("getPost", id, <<>>, err)
  /\ IF err = NoError
     THEN mockPosts' = getPostStore(mockPosts, id)
     ELSE UNCHANGED mockPosts
  /\ UNCHANGED <<mockUsers, clock, nextUserId, nextPostId>>

createPost(input) ==
  LET err == createPostError(mockPosts, input)
      authorId == nextPostId
      id == nextPostId + 1
  IN
  /\ id <= 2 * MaxPosts
  /\ Called("createPost", IF err = NoError THEN id ELSE 0, input, err)
  /\ IF err = NoError
     THEN /\ mockPosts' = MapSet(mockPosts, id,
                 createMockPost(input @@ [authorId |-> authorId], id, clock))
          /\ nextPostId' = nextPostId + 2
     ELSE UNCHANGED <<mockPosts, nextPostId>>
  /\ UNCHANGED <<mockUsers, clock, nextUserId>>

updatePost(id, data) ==
  LET err == updatePostError(mockPosts, id, data) IN
  /\ Called("updatePost", id, data, err)
  /\ IF err = NoError
     THEN mockPosts' = MapSet(mockPosts, id, updatedPost(mockPosts[id], data, clock))
     ELSE UNCHANGED mockPosts
  /\ UNCHANGED <<mockUsers, clock, nextUserId, nextPostId>>

deletePost(id) ==
  LET err == deletePostError(mockPosts, id) IN
  /\ Called("deletePost", id, <<>>, err)
  /\ IF err = NoError
     THEN mockPosts' = MapDelete(mockPosts, id)
     ELSE UNCHANGED mockPosts
  /\ UNCHANGED <<mockUsers, clock, nextUserId, nextPostId>>

publishPost(id, published) ==
  LET err == publishPostError(mockPosts, id) IN
  /\ Called("publishPost", id, [published |-> published], err)
  /\ IF err = NoError
     THEN mockPosts' = MapSet(mockPosts, id,
                              publishedPost(mockPosts[id], published, clock))
     ELSE UNCHANGED mockPosts
  /\ UNCHANGED <<mockUsers, clock, nextUserId, nextPostId>>

---------------------------------------------------------------------------
(* What listUsers and listPosts share: text search, Array.prototype.sort, *)
(* pagination (schemas/common.ts)                                         *)

\* the characters of the text values that the model holds as atoms
Chars(s) ==
  CASE s = "Admin User" ->
      <<"A", "d", "m", "i", "n", " ", "U", "s", "e", "r">>
    [] s = "John Doe" ->
      <<"J", "o", "h", "n", " ", "D", "o", "e">>
    [] s = "admin@example.com" ->
      <<"a", "d", "m", "i", "n", "@", "e", "x", "a", "m", "p", "l", "e",
        ".", "c", "o", "m">>
    [] s = "john@example.com" ->
      <<"j", "o", "h", "n", "@", "e", "x", "a", "m", "p", "l", "e", ".",
        "c", "o", "m">>
    [] s = "new@example.com" ->
      <<"n", "e", "w", "@", "e", "x", "a", "m", "p", "l", "e", ".", "c",
        "o", "m">>
    [] s = "admin" ->
      <<"a", "d", "m", "i", "n">>
    [] s = "johndoe" ->
      <<"j", "o", "h", "n", "d", "o", "e">>

\* the order of UTF-16 code units among the characters of the model
CodeOrder == <<" ", "-", ".">> \o Digits \o <<"@">> \o UpperCase \o LowerCase

CharCode ==
  Table([c \in {CodeOrder[i] : i \in 1..Len(CodeOrder)} |->
           CHOOSE i \in 1..Len(CodeOrder) : CodeOrder[i] = c])

\* a > b on strings
StrGt(a, b) ==
  LET n == Min(Len(a), Len(b))
      diff == {i \in 1..n : a[i] # b[i]}
  IN IF diff = {} THEN Len(a) > Len(b)
     ELSE LET i == CHOOSE j \in diff : \A k \in diff : j <= k
          IN CharCode[a[i]] > CharCode[b[i]]

\* String.prototype.includes
Includes(s, sub) ==
  \E i \in 0..(Len(s) - Len(sub)) : SubSeq(s, i + 1, i + Len(sub)) = sub

\* s.toLowerCase().includes(search), search already in lower case
LowerIncludes(s, search) == Includes(toLowerCase(s), search)

\* Array.from(map.values()) as the sequence of the keys, in insertion
\* order: the ids of a store are generated in increasing order, and
\* Map.prototype.set on a present key keeps the key's place
RECURSIVE Ascending(_)
Ascending(S) ==
  IF S = {} THEN <<>>
  ELSE LET m == CHOOSE x \in S : \A y \in S : x <= y
       IN <<m>> \o Ascending(S \ {m})

\* Array.prototype.filter
RECURSIVE Filter(_, _)
Filter(s, keep) ==
  IF s = <<>> THEN <<>>
  ELSE (IF Head(s) \in keep THEN <<Head(s)>> ELSE <<>>) \o Filter(Tail(s), keep)

\* the sequences that hold each element of the set S once
RECURSIVE Rearrangements(_)
Rearrangements(S) ==
  IF S = {} THEN {<<>>}
  ELSE UNION {{<<x>> \o p : p \in Rearrangements(S \ {x})} : x \in S}

\* Array.prototype.sort((a, b) => ...) with the comparator cmp, on an array
\* of distinct elements.  The
\* comparators of listUsers and listPosts never return 0, so they are not
\* consistent comparators and the order of two elements that the comparator
\* does not order the same way from both sides is implementation-defined
\* (ECMAScript, Array.prototype.sort): every rearrangement that no
\* comparison of two neighbours contradicts is a possible result.
\* (arrangements tabulates Rearrangements for the elements of the model)
SortResults(s, cmp(_, _), arrangements) ==
  LET elems == {s[i] : i \in 1..Len(s)}
      after(a, b) == cmp(a, b) > 0 /\ cmp(b, a) < 0
      contradicted ==
        UNION { IF after(ab[1], ab[2]) THEN {ab}
                ELSE IF after(ab[2], ab[1]) THEN {<<ab[2], ab[1]>>}
                ELSE {} : ab \in {x \in elems \X elems : x[1] < x[2]} }
  IN { p \in arrangements[elems] :
         \A i \in 1..(Len(p) - 1) : <<p[i], p[i + 1]>> \notin contradicted }

\* PaginationInputSchema: page and limit are positive, limit is at most 100
MaxLimit == 100
Pages == 1..MaxPage
Limits == {1, 2, MaxLimit}

\* pagination inputs that set page and limit
PageInputs ==
  {[page |-> p, limit |-> l] : p \in Pages, l \in Limits}
    \cup {[page |-> 2], [limit |-> 1]}

\* const { a = d } = rec
Param(rec, f, default) == IF Has(rec, f) THEN rec[f] ELSE default

\* const { pagination = {}, filters = {} } = input
\* const { page = 1, limit = 20, sortBy = 'createdAt', sortOrder = 'desc' }
\*   = pagination
paginationOf(input) ==
  LET pagination == Param(input, "pagination", <<>>)
  IN [ page |-> Param(pagination, "page", 1),
       limit |-> Param(pagination, "limit", 20),
       sortBy |-> Param(pagination, "sortBy", "createdAt"),
       sortOrder |-> Param(pagination, "sortOrder", "desc") ]
filtersOf(input) == Param(input, "filters", <<>>)

CeilDiv_Floor(total, limit) == total \div limit

CeilDiv_AtLeastOne(total, limit) ==
  IF total = 0 THEN 1 ELSE (total + limit - 1) \div limit

\* Math.ceil(total / limit)
CeilDiv(total, limit) == (total + limit - 1) \div limit

Slice_FromStartOfArray(s, start, limit) == SubSeq(s, 1, Min(limit, Len(s)))

\* Array.prototype.slice(start, start + limit)
Slice(s, start, limit) == SubSeq(s, start + 1, Min(start + limit, Len(s)))

\* the part of the return value of listUsers and listPosts after the sort:
\* the page of the sorted array arr, and the counts and flags
paginate(arr, page, limit) ==
  LET total == Len(arr)
      totalPages == CeilDiv(total, limit)
      start == (page - 1) * limit
  IN [ data |-> Slice(arr, start, limit),
       total |-> total,
       page |-> page,
       totalPages |-> totalPages,
       hasNextPage |-> page < totalPages,
       hasPreviousPage |-> page > 1 ]

---------------------------------------------------------------------------
(* procedures/user.ts: getUserByEmail, listUsers *)

\* getUserByEmail: the user it returns, or null
getUserByEmailResult(users, email) ==
  LET found == Filter(Ascending(DOMAIN users),
                      {k \in DOMAIN users : users[k].email = email})
  IN IF found = <<>> THEN Null ELSE PublicUser(users[Head(found)])

getUserByEmail(email) == Read("getUserByEmail", [email |-> email], {<<>>})

\* 'ADMIN', 'doe'
SearchAdmin == <<"A", "D", "M", "I", "N">>
SearchDoe == <<"d", "o", "e">>

\* the text values of the fields of a user that listUsers reads
UserTexts == Emails \cup Usernames \cup {"Admin User", "John Doe"}

\* s.toLowerCase().includes(search.toLowerCase()) and a > b, tabulated for
\* the text values of the model
UserTextIncludes ==
  Table([s \in UserTexts, q \in {SearchAdmin, SearchDoe} |->
           LowerIncludes(Chars(s), toLowerCase(q))])
UserTextGt ==
  Table([a \in UserTexts, b \in UserTexts |-> StrGt(Chars(a), Chars(b))])

\* listUsers: the record u passes every filter of filters that is applied
userMatches_NoStatus(u, filters) ==
  /\ (Has(filters, "search") /\ filters.search # <<>>)
       => \/ UserTextIncludes[u.name, filters.search]
          \/ UserTextIncludes[u.email, filters.search]
          \/ /\ u.username \notin {Undefined, ""}
             /\ UserTextIncludes[u.username, filters.search]
  /\ Has(filters, "role") => u.role = filters.role
  /\ Has(filters, "createdAfter") => u.createdAt >= filters.createdAfter
  /\ Has(filters, "createdBefore") => u.createdAt <= filters.createdBefore

userMatches(u, filters) ==
  /\ (Has(filters, "search") /\ filters.search # <<>>)
       => \/ UserTextIncludes[u.name, filters.search]
          \/ UserTextIncludes[u.email, filters.search]
          \/ /\ u.username \notin {Undefined, ""}
             /\ UserTextIncludes[u.username, filters.search]
  /\ Has(filters, "role") => u.role = filters.role
  /\ Has(filters, "status") => u.status = filters.status
  /\ Has(filters, "createdAfter") => u.createdAt >= filters.createdAfter
  /\ Has(filters, "createdBefore") => u.createdAt <= filters.createdBefore

\* aVal > bVal for aVal = a[sortBy], bVal = b[sortBy]: undefined, the value
\* of a missing username and of a field no user has, is greater than nothing
\* and nothing is greater than it
userGt(a, b, sortBy) ==
  CASE sortBy \in {"createdAt", "updatedAt"} -> a[sortBy] > b[sortBy]
    [] sortBy \in {"name", "email"} -> UserTextGt[a[sortBy], b[sortBy]]
    [] sortBy = "username" ->
         /\ a.username # Undefined /\ b.username # Undefined
         /\ UserTextGt[a.username, b.username]
    [] OTHER -> FALSE

\* listUsers: the comparator handed to sort
userCompare(a, b, sortBy, sortOrder) ==
  LET order == IF sortOrder = "asc" THEN 1 ELSE -1
  IN IF userGt(a, b, sortBy) THEN order ELSE -order

\* listUsers: the ids of users after the filters
usersFiltered(users, input) ==
  Filter(Ascending(DOMAIN users),
         {k \in DOMAIN users : userMatches(users[k], filtersOf(input))})

UserArrangements == Table([S \in SUBSET UserIds |-> Rearrangements(S)])

\* listUsers: what users.sort(...) can leave
usersSorted(users, input) ==
  LET p == paginationOf(input)
      sortBy == p.sortBy
      sortOrder == p.sortOrder
      cmp(a, b) == userCompare(users[a], users[b], sortBy, sortOrder)
  IN SortResults(usersFiltered(users, input), cmp, UserArrangements)

\* listUsers: the return value, arr being the sorted array
listUsersReturn(users, input, arr) ==
  LET p == paginationOf(input)
      r == paginate(arr, p.page, p.limit)
  IN [r EXCEPT !.data = [i \in DOMAIN r.data |-> PublicUser(users[r.data[i]])]]

\* the pagination inputs of listUsers: page and limit, or sortBy and
\* sortOrder; 'password' is a field that no stored user has
UserPaginations ==
  PageInputs
    \cup {[sortBy |-> f] : f \in {"name", "username", "updatedAt", "password"}}
    \cup {[sortBy |-> f, sortOrder |-> "asc"] :
            f \in {"name", "username", "updatedAt"}}
    \cup {[sortOrder |-> "asc"],
          [sortBy |-> "name", sortOrder |-> "asc", page |-> 2, limit |-> 1]}

\* the filter inputs of listUsers: one filter, or two
UserFilters ==
  Opt("search", {SearchAdmin, SearchDoe, <<>>})
    \cup Opt("role", {"admin", "user"})
    \cup Opt("status", {"active", "suspended"})
    \cup Opt("createdAfter", 0..MaxClock)
    \cup Opt("createdBefore", {0})
    \cup {[role |-> "user", status |-> "active"],
          [search |-> SearchDoe, role |-> "user"],
          [createdAfter |-> 1, createdBefore |-> 0]}

ListUsersInputs ==
  {<<>>}
    \cup {[pagination |-> p] : p \in UserPaginations}
    \cup {[filters |-> f] : f \in UserFilters}
    \cup {[pagination |-> p, filters |-> f] :
            p \in {[limit |-> 1], [page |-> 2, limit |-> 1]},
            f \in {[role |-> "user"], [search |-> SearchDoe]}}

listUsers(input) == Read("listUsers", input, usersSorted(mockUsers, input))

---------------------------------------------------------------------------
(* procedures/post.ts: listPosts, getPostStats *)

\* 'Orpc', 'SAFE'
SearchOrpc == <<"O", "r", "p", "c">>
SearchSafe == <<"S", "A", "F", "E">>

\* Array.prototype.includes, Array.prototype.some
InArray(arr, x) == \E i \in 1..Len(arr) : arr[i] = x
Some(arr, P(_)) == \E i \in 1..Len(arr) : P(arr[i])

\* listPosts: the record p passes every filter of filters that is applied
postMatches(p, filters) ==
  /\ (Has(filters, "search") /\ filters.search # <<>>)
       => LET search == toLowerCase(filters.search)
          IN \/ LowerIncludes(p.title, search)
             \/ LowerIncludes(p.content, search)
             \/ /\ p.excerpt \notin {NullText, <<>>}
                /\ LowerIncludes(p.excerpt, search)
  /\ Has(filters, "authorId") => p.authorId = filters.authorId
  /\ Has(filters, "status") => p.status = filters.status
  /\ Has(filters, "category") => p.category = filters.category
  /\ (Has(filters, "tags") /\ Len(filters.tags) > 0)
       => LET tagged(tag) == InArray(p.tags, tag) IN Some(filters.tags, tagged)
  /\ Has(filters, "published") => p.published = filters.published
  /\ Has(filters, "publishedAfter")
       => p.publishedAt # NullDate /\ p.publishedAt >= filters.publishedAfter
  /\ Has(filters, "publishedBefore")
       => p.publishedAt # NullDate /\ p.publishedAt <= filters.publishedBefore

\* aVal > bVal for aVal = a[sortBy], bVal = b[sortBy]: a Date is greater
\* than null, which compares as 0, and NullDate is less than every time of
\* the model; undefined, the value of a field no post has, is greater than
\* nothing and nothing is greater than it
postGt(a, b, sortBy) ==
  CASE sortBy \in {"createdAt", "updatedAt", "publishedAt", "viewCount"} ->
         a[sortBy] > b[sortBy]
    [] sortBy \in {"title", "slug"} -> StrGt(a[sortBy], b[sortBy])
    [] OTHER -> FALSE

\* listPosts: the comparator handed to sort
postCompare(a, b, sortBy, sortOrder) ==
  LET order == IF sortOrder = "asc" THEN 1 ELSE -1
  IN IF postGt(a, b, sortBy) THEN order ELSE -order

\* listPosts: the ids of posts after the filters
postsFiltered(posts, input) ==
  Filter(Ascending(DOMAIN posts),
         {k \in DOMAIN posts : postMatches(posts[k], filtersOf(input))})

PostArrangements == Table([S \in SUBSET PostIds |-> Rearrangements(S)])

\* listPosts: what posts.sort(...) can leave
postsSorted(posts, input) ==
  LET p == paginationOf(input)
      sortBy == p.sortBy
      sortOrder == p.sortOrder
      cmp(a, b) == postCompare(posts[a], posts[b], sortBy, sortOrder)
  IN SortResults(postsFiltered(posts, input), cmp, PostArrangements)

\* listPosts: the return value, arr being the sorted array
listPostsReturn(posts, input, arr) ==
  LET p == paginationOf(input)
      r == paginate(arr, p.page, p.limit)
  IN [r EXCEPT !.data = [i \in DOMAIN r.data |-> PublicPost(posts[r.data[i]])]]

\* the pagination inputs of listPosts: page and limit, or sortBy and
\* sortOrder; 'author' is a field that no stored post has
PostPaginations ==
  PageInputs
    \cup {[sortBy |-> f] : f \in {"title", "publishedAt", "viewCount", "author"}}
    \cup {[sortBy |-> f, sortOrder |-> "asc"] :
            f \in {"title", "publishedAt", "viewCount"}}
    \cup {[sortOrder |-> "asc"],
          [sortBy |-> "title", sortOrder |-> "asc", page |-> 2, limit |-> 1]}

\* the filter inputs of listPosts: one filter, or two
PostFilters ==
  Opt("search", {SearchOrpc, SearchSafe, <<>>})
    \cup Opt("authorId", {1})
    \cup Opt("status", {"draft"})
    \cup Opt("category", {"technology"})
    \cup Opt("tags", {<<"api">>, <<"rpc", "api">>, <<>>})
    \cup Opt("published", BOOLEAN)
    \cup Opt("publishedAfter", 0..MaxClock)
    \cup Opt("publishedBefore", {0})
    \cup {[published |-> TRUE, status |-> "draft"],
          [search |-> SearchSafe, category |-> "technology"],
          [tags |-> <<"typescript">>, published |-> FALSE],
          [publishedAfter |-> 1, publishedBefore |-> 0]}

ListPostsInputs ==
  {<<>>}
    \cup {[pagination |-> p] : p \in PostPaginations}
    \cup {[filters |-> f] : f \in PostFilters}
    \cup {[pagination |-> p, filters |-> f] :
            p \in {[limit |-> 1], [page |-> 2, limit |-> 1]},
            f \in {[category |-> "technology"], [search |-> SearchOrpc]}}

listPosts(input) == Read("listPosts", input, postsSorted(mockPosts, input))

\* Array.prototype.reduce((sum, p) => sum + p.viewCount, 0)
RECURSIVE SumViews(_, _)
SumViews(posts, ids) ==
  IF ids = <<>> THEN 0
  ELSE posts[Head(ids)].viewCount + SumViews(posts, Tail(ids))

\* getPostStats: the return value; averageViewsPerPost, a quotient of two
\* integers, is the pair of its numerator and denominator
getPostStatsReturn(posts, input) ==
  LET all == Ascending(DOMAIN posts)
      ids == IF Has(input, "authorId")
             THEN Filter(all, {k \in DOMAIN posts :
                                 posts[k].authorId = input.authorId})
             ELSE all
      totalPosts == Len(ids)
      totalViews == SumViews(posts, ids)
  IN [ totalPosts |-> totalPosts,
       publishedPosts |-> Len(Filter(ids, {k \in DOMAIN posts : posts[k].published})),
       draftPosts |-> Len(Filter(ids, {k \in DOMAIN posts :
                                         posts[k].status = "draft"})),
       totalViews |-> totalViews,
       averageViewsPerPost |-> IF totalPosts > 0 THEN <<totalViews, totalPosts>>
                               ELSE <<0, 1>> ]

getPostStats(input) == Read("getPostStats", input, {<<>>})

\* new Date() returns a later value as time passes (no call reads the time
\* that passes after the last call of a run)
Tick ==
  /\ clock < MaxClock
  /\ calls < MaxCalls
  /\ last.op \notin ReadOps
  /\ clock' = clock + 1
  /\ UNCHANGED <<mockUsers, mockPosts, nextUserId, nextPostId, calls, last,
                 before, sorted, http, client, views, inflight>>

---------------------------------------------------------------------------

Init ==
  /\ mockUsers = SeedUsers
  /\ mockPosts = SeedPosts
  /\ clock = 0
  /\ nextUserId = 3
  /\ nextPostId = 5
  /\ calls = 0
  /\ last = [op |-> "init", id |-> 0, input |-> <<>>, err |-> NoError]
  /\ before = <<>>
  /\ sorted = <<>>
  /\ http = Idle
  /\ client = NotFetching
  /\ views = <<>>
  /\ inflight = [r \in Requests |-> NoRequest]

NextUsers ==
  \/ Tick
  \/ \E id \in UserIdInputs : getUser(id)
  \/ \E input \in CreateUserInputs : createUser(input)
  \/ \E id \in UserIdInputs, data \in UpdateUserInputs : updateUser(id, data)
  \/ \E id \in UserIdInputs : deleteUser(id)

SpecUsers == Init /\ [][NextUsers]_vars

NextPosts ==
  \/ Tick
  \/ \E id \in PostIdInputs : getPost(id)
  \/ \E input \in CreatePostInputs : createPost(input)
  \/ \E id \in PostIdInputs, data \in UpdatePostInputs : updatePost(id, data)
  \/ \E id \in PostIdInputs : deletePost(id)
  \/ \E id \in PostIdInputs, published \in BOOLEAN : publishPost(id, published)

SpecPosts == Init /\ [][NextPosts]_vars

\* Both stores
Next == NextUsers \/ NextPosts

\* the inputs of the calls that build the stores the queries read
SetupCreateUserInputs ==
  {i \in CreateUserInputs :
     i.email = "new@example.com" /\ DOMAIN i \subseteq DOMAIN [email |-> 0,
       password |-> 0, name |-> 0, role |-> 0]}
SetupUpdateUserInputs == {[status |-> "suspended"], [name |-> "Admin User"]}

NextUserQueries ==
  \/ Tick
  \/ \E id \in UserIdInputs : getUser(id)
  \/ \E email \in Emails : getUserByEmail(email)
  \/ \E input \in ListUsersInputs : listUsers(input)
  \/ \E input \in SetupCreateUserInputs : createUser(input)
  \/ \E data \in SetupUpdateUserInputs : updateUser(2, data)
  \/ \E id \in UserIdInputs : deleteUser(id)

SetupCreatePostInputs ==
  {i \in CreatePostInputs :
     /\ i.title = TitleHelloWorld
     /\ DOMAIN i \subseteq DOMAIN [title |-> 0, content |-> 0, published |-> 0]
     /\ Has(i, "published") => i.published}
SetupUpdatePostInputs == {[title |-> TitleHelloWorld], [excerpt |-> NullText]}

NextPostQueries ==
  \/ Tick
  \/ \E id \in PostIdInputs : getPost(id)
  \/ \E input \in ListPostsInputs : listPosts(input)
  \/ \E input \in Opt("authorId", {1, 5}) : getPostStats(input)
  \/ \E input \in SetupCreatePostInputs : createPost(input)
  \/ \E data \in SetupUpdatePostInputs : updatePost(2, data)
  \/ \E id \in PostIdInputs : deletePost(id)
  \/ publishPost(4, TRUE)

\* The queries of both stores, on the stores that a few calls build
NextQueries == NextUserQueries \/ NextPostQueries

SpecQueries == Init /\ [][NextQueries]_vars

---------------------------------------------------------------------------
(* createPost as the first call, over every short title made of an upper- *)
(* case letter, a lower-case letter, a digit, a space and a hyphen.       *)

MinTitleLen == 3
MaxTitleLen == 4

SlugAlphabet == {"A", "b", "1", " ", "-"}

SlugTitles ==
  Titles \cup UNION {[1..n -> SlugAlphabet] : n \in MinTitleLen..MaxTitleLen}

SlugPostInputs ==
  {[title |-> t, content |-> ContentDigits] : t \in SlugTitles}
    \cup {[title |-> TitleHelloWorld, content |-> ContentDigits,
           slug |-> SlugBuilding]}

NextSlug ==
  \/ Tick
  \/ \E input \in SlugPostInputs : calls = 0 /\ createPost(input)

SpecSlug == Init /\ [][NextSlug]_vars

---------------------------------------------------------------------------
(* apps/web/app/api/orpc/[...segments]/route.ts                           *)
(* POST and GET await the procedure they route to: http holds the request *)
(* while the procedure runs (phase "calling", seen = the calls made       *)
(* before it) and the response once it is sent (phase "responded").  The  *)
(* procedure is called with the request's input; the validation of the    *)
(* input against the procedure's schema throws an error named ZodError.   *)

\* routers/index.ts, routers/user.ts, routers/post.ts: the procedure names
appRouter ==
  [user |-> {"get", "getByEmail", "list", "create", "update", "delete"},
   post |-> {"get", "list", "create", "update", "delete", "publish", "stats"}]

\* The members of Object.prototype that the requests of the model name:
\* appRouter, the routers and every function inherit them, and
\* object[name] finds them
ObjectPrototype == {"toString", "valueOf"}

\* appRouter[routerName]: a router, an inherited function, or undefined
routerOf(routerName) ==
  IF routerName \in DOMAIN appRouter THEN "router"
  ELSE IF routerName \in ObjectPrototype THEN "function"
  ELSE Undefined

\* router[procedureName]: a procedure, an inherited function, or undefined
procedureOf(routerName, procedureName) ==
  IF routerName \in DOMAIN appRouter /\ procedureName \in appRouter[routerName]
  THEN "procedure"
  ELSE IF procedureName \in ObjectPrototype THEN "function"
  ELSE Undefined

\* the call of an inherited function, made without a receiver:
\* Object.prototype.toString returns '[object Undefined]'; valueOf, and
\* Function.prototype.toString found on a function, throw a TypeError
inheritedThrows(routerName, procedureName) ==
  IF routerName \in DOMAIN appRouter /\ procedureName = "toString"
  THEN NoThrow
  ELSE [name |-> "TypeError", message |-> "TypeError"]

\* NextResponse.json(..., {status})
Response(segments, input, status, error) ==
  [phase |-> "responded", segments |-> segments, input |-> input,
   seen |-> calls, status |-> status, error |-> error]

\* the catch block of POST and of GET: the status for a thrown error
catchStatus(error) == IF error.name = "ZodError" THEN 400 ELSE 500

\* POST and GET from the segments to the call of the procedure
Route(segments, input) ==
  /\ http.phase # "calling"
  /\ calls < MaxCalls
  /\ last.op \notin ReadOps
  /\ http' =
       IF Len(segments) < 2
       THEN Response(segments, input, 400, NoThrow)
       ELSE IF routerOf(segments[1]) = Undefined
       THEN Response(segments, input, 404, NoThrow)
       ELSE IF procedureOf(segments[1], segments[2]) = Undefined
       THEN Response(segments, input, 404, NoThrow)
       ELSE [phase |-> "calling", segments |-> segments, input |-> input,
             seen |-> calls, status |-> 0, error |-> NoThrow]
  /\ UNCHANGED <<mockUsers, mockPosts, clock, nextUserId, nextPostId, calls,
                 last, before, sorted, client, views, inflight>>

\* POST: the input is the parsed body, {} when there is none
POST(segments, body) == Route(segments, body)

\* GET: the input object built from the search parameters, a later value of
\* a key replacing an earlier one.  The value of a parameter is a UUID,
\* which JSON.parse rejects, so that it is kept as it is.
RECURSIVE inputOfParams(_)
inputOfParams(searchParams) ==
  IF searchParams = <<>> THEN <<>>
  ELSE LET n == Len(searchParams)
       IN Spread(inputOfParams(SubSeq(searchParams, 1, n - 1)),
                 searchParams[n][1] :> searchParams[n][2])

GET(segments, searchParams) == Route(segments, inputOfParams(searchParams))

\* the input schemas of the procedures the requests of the model reach:
\* IdParamSchema, CreateUserInputSchema
ValidInput(segments, input) ==
  IF segments[2] \in {"get", "delete"}
  THEN DOMAIN input = {"id"}
  ELSE {"email", "password", "name"} \subseteq DOMAIN input

\* the procedure is running for the request
Calling(segments) ==
  /\ http.phase = "calling"
  /\ http.segments = segments
  /\ calls = http.seen
  /\ ValidInput(segments, http.input)

\* what the route handler found is an inherited function, not a procedure:
\* it is called all the same, and its result or its error is the response
CallInherited ==
  /\ http.phase = "calling"
  /\ calls = http.seen
  /\ procedureOf(http.segments[1], http.segments[2]) = "function"
  /\ LET error == inheritedThrows(http.segments[1], http.segments[2])
     IN http' = Response(http.segments, http.input,
                         IF error = NoThrow THEN 200 ELSE catchStatus(error),
                         error)
  /\ UNCHANGED <<mockUsers, mockPosts, clock, nextUserId, nextPostId, calls,
                 last, before, sorted, client, views, inflight>>

\* the input fails the schema: the ZodError is caught
Reject ==
  /\ http.phase = "calling"
  /\ calls = http.seen
  /\ procedureOf(http.segments[1], http.segments[2]) = "procedure"
  /\ ~ValidInput(http.segments, http.input)
  /\ LET error == [name |-> "ZodError", message |-> "Validation error"]
     IN http' = Response(http.segments, http.input, catchStatus(error), error)
  /\ UNCHANGED <<mockUsers, mockPosts, clock, nextUserId, nextPostId, calls,
                 last, before, sorted, client, views, inflight>>

\* the procedure has returned or thrown: return NextResponse.json(result),
\* or the catch block with the Error of the handler
Respond ==
  /\ http.phase = "calling"
  /\ calls = http.seen + 1
  /\ http' =
       IF last.err = NoError
       THEN Response(http.segments, http.input, 200, NoThrow)
       ELSE LET error == [name |-> "Error", message |-> last.err]
            IN Response(http.segments, http.input, catchStatus(error), error)
  /\ UNCHANGED <<mockUsers, mockPosts, clock, nextUserId, nextPostId, calls,
                 last, before, sorted, client, views, inflight>>

\* the requests of the model
RouteSegments ==
  {<<"user">>, <<"admin", "get">>, <<"user", "remove">>, <<"user", "get">>,
   <<"user", "create">>, <<"user", "delete">>, <<"post", "get">>,
   <<"post", "delete">>, <<"user", "toString">>, <<"post", "valueOf">>,
   <<"toString", "valueOf">>, <<"valueOf", "get">>}

RouteBodies ==
  {[id |-> k] : k \in UserIdInputs \cup PostIdInputs}
    \cup {i \in CreateUserInputs : DOMAIN i = {"email", "password", "name"}}
    \cup {<<>>}

RouteParams ==
  {<<>>}
    \cup {<< <<"id", k>> >> : k \in UserIdInputs \cup PostIdInputs}
    \cup {<< <<"id", 1>>, <<"id", k>> >> : k \in PostIdInputs}

NextRoute ==
  \/ Tick
  \/ \E segments \in RouteSegments, body \in RouteBodies : POST(segments, body)
  \/ \E segments \in RouteSegments, searchParams \in RouteParams :
       GET(segments, searchParams)
  \/ Calling(<<"user", "get">>) /\ getUser(http.input.id)
  \/ Calling(<<"user", "create">>) /\ createUser(http.input)
  \/ Calling(<<"user", "delete">>) /\ deleteUser(http.input.id)
  \/ Calling(<<"post", "get">>) /\ getPost(http.input.id)
  \/ Calling(<<"post", "delete">>) /\ deletePost(http.input.id)
  \/ CallInherited
  \/ Reject
  \/ Respond

SpecRoute == Init /\ [][NextRoute]_vars

---------------------------------------------------------------------------
(* client.ts: the fetch function createClient hands to ORPCLink.          *)
(* client.pc is the position of one call of it: "test" at the while       *)
(* condition, "inflight" at await fetch(...), "backoff" at the awaited    *)
(* delay, "after" behind the loop, "returned" and "thrown" at its end.    *)
(* A fetch settles with a response of any status, or rejects: with a      *)
(* network error, or with an AbortError once the signal is aborted.  The  *)
(* timer set for finalConfig.timeout fires at an await, when it is armed. *)

MaxRetries == 2

\* the statuses of the responses of the model: ok, not modified, client
\* errors, server errors
Statuses == {200, 204, 304, 400, 404, 500, 503}

\* response.ok
Ok(status) == status >= 200 /\ status <= 299

OtherVars ==
  <<mockUsers, mockPosts, clock, nextUserId, nextPostId, calls, last, before,
    sorted, http, views, inflight>>

\* lines 44-48: a call begins, with the finalConfig of createClient
FetchCalled(enableRetries, maxRetries) ==
  /\ client.pc = "idle"
  /\ client' = [NotFetching EXCEPT !.pc = "test",
                                   !.enableRetries = enableRetries,
                                   !.maxRetries = maxRetries,
                                   !.timer = "armed"]
  /\ UNCHANGED OtherVars

\* the number the while condition compares retries with
RetryLimit == IF client.enableRetries THEN client.maxRetries ELSE 0

MayRetry_WheneverEnabled == client.enableRetries

\* may the wrapper retry: retries < maxRetries && enableRetries
MayRetry == client.retries < client.maxRetries /\ client.enableRetries

\* line 50, the while condition, and when it holds line 52:
\* fetch(input, {...init, signal})
Attempt ==
  /\ client.pc = "test"
  /\ client' =
       IF client.retries <= RetryLimit
       THEN [client EXCEPT !.pc = "inflight",
                           !.attempts = @ + 1,
                           !.withAborted = client.aborted,
                           !.response = 0]
       ELSE [client EXCEPT !.pc = "after"]
  /\ UNCHANGED OtherVars

\* clearTimeout(timeoutId)
Cleared(timer) == IF timer = "armed" THEN "cleared" ELSE timer

\* lines 57-77: the fetch resolved with a response
Responded(status) ==
  /\ client.pc = "inflight"
  /\ ~client.aborted
  /\ client' =
       IF Ok(status) \/ (status >= 400 /\ status < 500) \/ ~MayRetry
       THEN [client EXCEPT !.pc = "returned", !.response = status,
                           !.timer = Cleared(@), !.outcome = "response"]
       ELSE [client EXCEPT !.pc = "backoff", !.response = status,
                           !.timer = Cleared(@), !.retries = @ + 1]
  /\ UNCHANGED OtherVars

\* lines 78-89: the fetch rejected, with error
Caught(error) ==
  client' =
    IF MayRetry
    THEN [client EXCEPT !.pc = "backoff", !.lastError = error,
                        !.retries = @ + 1]
    ELSE [client EXCEPT !.pc = "after", !.lastError = error]

\* the fetch rejected with a network error
Failed ==
  /\ client.pc = "inflight"
  /\ ~client.aborted
  /\ Caught("TypeError")
  /\ UNCHANGED OtherVars

\* the fetch rejected because its signal is aborted
Aborted ==
  /\ client.pc = "inflight"
  /\ client.aborted
  /\ Caught("AbortError")
  /\ UNCHANGED OtherVars

\* line 45: the timer fires, while the function awaits
TimedOut ==
  /\ client.pc \in {"inflight", "backoff"}
  /\ client.timer = "armed"
  /\ client' = [client EXCEPT !.timer = "fired", !.aborted = TRUE]
  /\ UNCHANGED OtherVars

\* lines 73, 84: the delay is over; continue
BackoffOver ==
  /\ client.pc = "backoff"
  /\ client' = [client EXCEPT !.pc = "test"]
  /\ UNCHANGED OtherVars

\* lines 92-93
Throws ==
  /\ client.pc = "after"
  /\ client' = [client EXCEPT
                  !.pc = "thrown", !.timer = Cleared(@),
                  !.outcome = IF client.lastError # "null" THEN client.lastError
                              ELSE "Request failed after retries"]
  /\ UNCHANGED OtherVars

NextClient ==
  \/ \E enableRetries \in BOOLEAN, maxRetries \in 0..MaxRetries :
       FetchCalled(enableRetries, maxRetries)
  \/ Attempt
  \/ \E status \in Statuses : Responded(status)
  \/ Failed
  \/ Aborted
  \/ TimedOut
  \/ BackoffOver
  \/ Throws

SpecClient == Init /\ [][NextClient]_vars

\* The function's own steps are taken, a timer that is armed fires, and
\* every fetch settles: it resolves or it rejects.
FairClient ==
  /\ WF_vars(Attempt) /\ WF_vars(BackoffOver) /\ WF_vars(Throws)
  /\ WF_vars(Aborted)
  /\ WF_vars(Failed \/ \E status \in Statuses : Responded(status))

SpecClientFair == SpecClient /\ FairClient

---------------------------------------------------------------------------
(* route.ts and the procedures, several requests at a time.  The server   *)
(* runs one piece of code at a time and switches between requests where   *)
(* their code awaits: POST at context.params, at request.json() and at    *)
(* the procedure's promise.  inflight[r].pc is the position of request r: *)
(* "params" and "body" at the first two awaits, "running" while its       *)
(* handler runs, "settled" when the handler has returned or thrown and    *)
(* POST has not yet gone on, "done" when the response is made.            *)

\* no handler is running: the server is free to run other code
Quiet == \A r \in Requests : inflight[r].pc # "running"

\* the bodies of the concurrent requests: createUser with one of two emails,
\* createPost with one of two slugs or with none
ConcurrentInputs(op) ==
  IF op = "createUser"
  THEN {[email |-> e, password |-> "User123!", name |-> "John Doe"] :
          e \in {"new@example.com", "john@example.com"}}
  ELSE {i \in CreatePostInputs :
          /\ i.title = TitleHelloWorld
          /\ DOMAIN i \subseteq DOMAIN [title |-> 0, content |-> 0, slug |-> 0]}

\* a step of POST that leaves the stores as they are
Awaits(r, pc, op, input) ==
  /\ Quiet
  /\ inflight' = [inflight EXCEPT ![r] = [@ EXCEPT !.pc = pc, !.op = op,
                                                   !.input = input]]
  /\ UNCHANGED <<mockUsers, mockPosts, clock, nextUserId, nextPostId, calls,
                 last, before, sorted, http, client, views>>

\* lines 45-47: POST is called and awaits context.params
Arrive(r, op, input) ==
  /\ inflight[r].pc = "idle"
  /\ calls < MaxCalls
  /\ Awaits(r, "params", op, input)

\* lines 49-77: the router and the procedure are found, POST awaits the body
Resolved(r) ==
  /\ inflight[r].pc = "params"
  /\ Awaits(r, "body", inflight[r].op, inflight[r].input)

\* lines 78-85: the body is parsed and the procedure is called with it
Resume(r) ==
  /\ inflight[r].pc = "body"
  /\ Awaits(r, "running", inflight[r].op, inflight[r].input)

\* the handler of the request whose procedure was called, from its first
\* statement to its return or throw
HandlerRuns(r) ==
  /\ inflight[r].pc = "running"
  /\ IF inflight[r].op = "createUser"
     THEN createUser(inflight[r].input)
     ELSE createPost(inflight[r].input)

\* lines 87 and 88-111: POST goes on behind the await and makes the response
Reply(r) ==
  /\ inflight[r].pc = "settled"
  /\ Awaits(r, "done", inflight[r].op, inflight[r].input)

NextConcurrent ==
  \E r \in Requests :
    \/ \E op \in {"createUser", "createPost"} :
         \E input \in ConcurrentInputs(op) : Arrive(r, op, input)
    \/ Resolved(r)
    \/ Resume(r)
    \/ HandlerRuns(r)
    \/ Reply(r)

SpecConcurrent == Init /\ [][NextConcurrent]_vars

Spec == Init /\ [][Next]_vars

---------------------------------------------------------------------------
(* Properties.  In a state whose last call is last, before is the store as *)
(* that call found it and mockUsers / mockPosts is the store as it left it. *)

DuplicateErrors == {"Email already exists", "Username already taken",
                    "Slug already exists"}

\* C1: in every reachable state of the user store no two distinct users
\* have the same email, and no two distinct users that both have a username
\* have the same username.
C1_UniqueEmailAndUsername ==
  \A a, b \in DOMAIN mockUsers :
    a # b =>
      /\ mockUsers[a].email # mockUsers[b].email
      /\ (mockUsers[a].username # Undefined /\ mockUsers[b].username # Undefined
            => mockUsers[a].username # mockUsers[b].username)

\* an update has just given a user the username of a user deleted before
C1_Witness ==
  /\ last.op = "updateUser" /\ last.err = NoError
  /\ Has(last.input, "username")
  /\ before[last.id].username # last.input.username
  /\ mockUsers[last.id].username = last.input.username

\* C2: in every reachable state of the post store no two distinct posts
\* have the same slug, whether the slug was supplied or generated from the
\* title.
C2_UniqueSlug ==
  \A a, b \in DOMAIN mockPosts : a # b => mockPosts[a].slug # mockPosts[b].slug

\* C3: in every reachable state every post with published = true has a
\* non-null publishedAt.
C3_PublishedHasTimestamp ==
  \A k \in DOMAIN mockPosts :
    mockPosts[k].published => mockPosts[k].publishedAt # NullDate

\* an updatePost has just published a post that had never been published
C3_Witness ==
  /\ last.op = "updatePost" /\ last.err = NoError
  /\ Has(last.input, "published") /\ last.input.published
  /\ before[last.id].publishedAt = NullDate
  /\ mockPosts[last.id].published

\* C4: once a post's publishedAt is non-null, no call changes it.
C4_PublishedAtSetOnce ==
  [][ \A k \in DOMAIN mockPosts \cap DOMAIN mockPosts' :
        mockPosts[k].publishedAt # NullDate
          => mockPosts'[k].publishedAt = mockPosts[k].publishedAt ]_vars

\* C5: an updatePost with published = true on an unpublished post sets a
\* non-null publishedAt, and the same updatePost applied to the resulting
\* store at any later time succeeds and leaves publishedAt as it is.
C5_PublishThenRepeat ==
  ( /\ last.op = "updatePost" /\ last.err = NoError
    /\ Has(last.input, "published") /\ last.input.published
    /\ ~before[last.id].published )
  => /\ mockPosts[last.id].publishedAt # NullDate
     /\ updatePostError(mockPosts, last.id, last.input) = NoError
     /\ \A t \in clock..MaxClock + 1 :
          updatedPost(mockPosts[last.id], last.input, t).publishedAt
            = mockPosts[last.id].publishedAt

\* an updatePost has just published an unpublished post, and time has
\* passed since the post was created
C5_Witness ==
  /\ last.op = "updatePost" /\ last.err = NoError
  /\ Has(last.input, "published") /\ last.input.published
  /\ ~before[last.id].published
  /\ mockPosts[last.id].publishedAt > mockPosts[last.id].createdAt

\* C6: createUser with the email of an existing user throws 'Email already
\* exists' and leaves the user store as it was.
C6_CreateDuplicateEmailFails ==
  ( /\ last.op = "createUser"
    /\ \E k \in DOMAIN before : before[k].email = last.input.email )
  => /\ last.err = "Email already exists"
     /\ mockUsers = before

\* a createUser with a seeded email has just been rejected
C6_Witness ==
  /\ last.op = "createUser" /\ last.err = "Email already exists"
  /\ last.input.email = "john@example.com"

\* what createUser must have stored and getUser must return for input
CreatedAndRetrievable(users, id, input) ==
  LET got == getUserResult(users, id) IN
  /\ got.err = NoError
  /\ got.ret.id = id
  /\ got.ret.name = input.name
  /\ got.ret.username = (IF Has(input, "username") THEN input.username
                         ELSE Undefined)
  /\ got.ret.role = (IF Has(input, "role") THEN input.role ELSE "user")
  /\ users[id].email = input.email

\* C7 as stated: createUser with an email no existing user has succeeds, and
\* getUser with the returned id then returns that user.
C7_FreshEmailSucceeds ==
  ( /\ last.op = "createUser"
    /\ \A k \in DOMAIN before : before[k].email # last.input.email )
  => /\ last.err = NoError
     /\ CreatedAndRetrievable(mockUsers, last.id, last.input)

\* C7 amended: createUser with an email no existing user has and, when a
\* username is supplied, a username no existing user has, succeeds, and
\* getUser with the returned id then returns that user.
C7_FreshEmailAndUsernameSucceeds ==
  ( /\ last.op = "createUser"
    /\ \A k \in DOMAIN before : before[k].email # last.input.email
    /\ Has(last.input, "username")
         => \A k \in DOMAIN before : before[k].username # last.input.username )
  => /\ last.err = NoError
     /\ CreatedAndRetrievable(mockUsers, last.id, last.input)

\* a createUser that supplied a username has just succeeded
C7_Witness ==
  /\ last.op = "createUser" /\ last.err = NoError
  /\ Has(last.input, "username")
  /\ last.id \notin DOMAIN before
  /\ mockUsers[last.id].username = last.input.username

\* C8: deleteUser / deletePost with an absent id throws not-found and
\* changes nothing; with a present id it removes exactly that record, and a
\* get with the same id on the resulting store throws not-found.
C8_Delete ==
  /\ last.op = "deleteUser"
       => IF last.id \in DOMAIN before
          THEN /\ last.err = NoError
               /\ mockUsers = [k \in DOMAIN before \ {last.id} |-> before[k]]
               /\ getUserResult(mockUsers, last.id).err = "User not found"
          ELSE /\ last.err = "User not found"
               /\ mockUsers = before
  /\ last.op = "deletePost"
       => IF last.id \in DOMAIN before
          THEN /\ last.err = NoError
               /\ mockPosts = [k \in DOMAIN before \ {last.id} |-> before[k]]
               /\ getPostError(mockPosts, last.id) = "Post not found"
          ELSE /\ last.err = "Post not found"
               /\ mockPosts = before

\* a post that an earlier call created has just been deleted
C8_Witness ==
  /\ last.op = "deletePost" /\ last.err = NoError /\ last.id = 6
  /\ DOMAIN before = {2, 4, 6}
  /\ DOMAIN mockPosts = {2, 4}

\* C9: updateUser, updatePost and publishPost with an absent id throw
\* not-found and leave the store as it was.
C9_UpdateAbsentFails ==
  /\ (last.op = "updateUser" /\ last.id \notin DOMAIN before)
       => last.err = "User not found" /\ mockUsers = before
  /\ (last.op \in {"updatePost", "publishPost"} /\ last.id \notin DOMAIN before)
       => last.err = "Post not found" /\ mockPosts = before

\* an updateUser that supplied a field has just been rejected as not found
C9_Witness ==
  /\ last.op = "updateUser" /\ last.err = "User not found"
  /\ last.input # <<>>
  /\ last.id \notin DOMAIN before

\* the supplied value of field f differs from the record's own and is held
\* by another record of the store
HeldByOther(store, id, data, f) ==
  /\ Has(data, f) /\ data[f] # store[id][f]
  /\ \E k \in DOMAIN store \ {id} : store[k][f] = data[f]

\* C10: an update that supplies the record's own current email, username or
\* slug is not rejected as a duplicate of that field; one that supplies an
\* email, username or slug that differs from the record's own and is held
\* by another record is rejected with a duplicate error and changes nothing.
C10_UniquenessOnlyWhenChanged ==
  /\ (last.op = "updateUser" /\ last.id \in DOMAIN before)
       => LET data == last.input
              own == before[last.id]
          IN /\ (Has(data, "email") /\ data.email = own.email)
                  => last.err # "Email already exists"
             /\ (Has(data, "username") /\ data.username = own.username)
                  => last.err # "Username already taken"
             /\ (\A f \in {"email", "username"} \cap DOMAIN data :
                   data[f] = own[f]) => last.err = NoError
             /\ HeldByOther(before, last.id, data, "email")
                  => last.err = "Email already exists" /\ mockUsers = before
             /\ HeldByOther(before, last.id, data, "username")
                  => last.err \in DuplicateErrors /\ mockUsers = before
  /\ (last.op = "updatePost" /\ last.id \in DOMAIN before)
       => LET data == last.input
              own == before[last.id]
          IN /\ (Has(data, "slug") /\ data.slug = own.slug)
                  => last.err = NoError
             /\ HeldByOther(before, last.id, data, "slug")
                  => last.err = "Slug already exists" /\ mockPosts = before

\* an updateUser that supplied the user's own email and own username has
\* just succeeded
C10_Witness ==
  /\ last.op = "updateUser" /\ last.err = NoError
  /\ Has(last.input, "email") /\ last.input.email = before[last.id].email
  /\ Has(last.input, "username")
  /\ last.input.username = before[last.id].username

\* the record new is the record old with the fields of data, a refreshed
\* updatedAt and nothing else changed but, possibly, the fields of except
MergedOver(old, new, data, now, except) ==
  /\ DOMAIN new = DOMAIN old \cup DOMAIN data
  /\ \A f \in DOMAIN data \ {"updatedAt"} : new[f] = data[f]
  /\ new.updatedAt = now
  /\ new.id = old.id /\ new.createdAt = old.createdAt
  /\ \A f \in DOMAIN old \ (DOMAIN data \cup {"updatedAt"} \cup except) :
       new[f] = old[f]

\* the store new is the store old but for the record id
OnlyChanged(old, new, id) ==
  /\ DOMAIN new = DOMAIN old
  /\ \A k \in DOMAIN old \ {id} : new[k] = old[k]

\* C11: a successful updateUser or updatePost changes only the record with
\* the given id: every supplied field takes the supplied value, updatedAt
\* becomes the current time, id, createdAt and every field not supplied keep
\* their values (publishedAt changes only when the update publishes an
\* unpublished post), and every other record and the other store are
\* unchanged.
C11_UpdateMergesOnlyGivenRecord ==
  [][ /\ (calls' = calls + 1 /\ last'.op = "updateUser" /\ last'.err = NoError)
        => /\ OnlyChanged(mockUsers, mockUsers', last'.id)
           /\ MergedOver(mockUsers[last'.id], mockUsers'[last'.id],
                         last'.input, clock, {})
           /\ mockPosts' = mockPosts
      /\ (calls' = calls + 1 /\ last'.op = "updatePost" /\ last'.err = NoError)
        => LET old == mockPosts[last'.id]
               new == mockPosts'[last'.id]
               data == last'.input
           IN /\ OnlyChanged(mockPosts, mockPosts', last'.id)
              /\ MergedOver(old, new, data, clock, {"publishedAt"})
              /\ new.publishedAt # old.publishedAt
                   => /\ Has(data, "published") /\ data.published
                      /\ ~old.published
                      /\ new.publishedAt = clock
              /\ mockUsers' = mockUsers ]_vars

\* an updateUser has just changed a user's name at a time later than the
\* user's last change, and another user is in the store
C11_Witness ==
  /\ last.op = "updateUser" /\ last.err = NoError
  /\ Has(last.input, "name")
  /\ before[last.id].name # last.input.name
  /\ mockUsers[last.id].name = last.input.name
  /\ mockUsers[last.id].updatedAt > before[last.id].updatedAt
  /\ DOMAIN mockUsers # {last.id}

---------------------------------------------------------------------------
(* Properties of listUsers and listPosts.  In a state whose last call is  *)
(* one of them, sorted is the array the sort left and the stores are as   *)
(* the call found them.                                                    *)

ListCall == last.op \in {"listUsers", "listPosts"}

\* what the last call, a listUsers or a listPosts, returned
ListReturn ==
  IF last.op = "listUsers"
  THEN listUsersReturn(mockUsers, last.input, sorted)
  ELSE listPostsReturn(mockPosts, last.input, sorted)

\* the requested page and limit
ListPage == paginationOf(last.input).page
ListLimit == paginationOf(last.input).limit

\* the store the last call read
ListStore == IF last.op = "listUsers" THEN mockUsers ELSE mockPosts

\* C12: the data of listUsers and listPosts has
\* min(limit, total - (page-1)*limit) items when that is positive and none
\* otherwise: never more than limit, and none, without an error, for a page
\* beyond the records.
C12_PageLength ==
  ListCall
  => LET r == ListReturn
         rest == r.total - (ListPage - 1) * ListLimit
     IN /\ last.err = NoError
        /\ r.total <= Cardinality(DOMAIN ListStore)
        /\ Len(r.data) = (IF rest > 0 THEN Min(ListLimit, rest) ELSE 0)
        /\ Len(r.data) <= ListLimit

\* listUsers has just returned the one user of page 2 of 3 users, 2 a page
C12_Witness ==
  /\ last.op = "listUsers"
  /\ ListPage = 2 /\ ListLimit = 2
  /\ ListReturn.total = 3
  /\ Len(ListReturn.data) = 1

\* the ids of the records that the filters of the last call let pass
ListPassing ==
  IF last.op = "listUsers"
  THEN {k \in DOMAIN mockUsers : userMatches(mockUsers[k], filtersOf(last.input))}
  ELSE {k \in DOMAIN mockPosts : postMatches(mockPosts[k], filtersOf(last.input))}

\* C13: the result of listUsers and listPosts has total = the number of
\* records that pass the filters, totalPages = ceil(total / limit), that is
\* the least number of pages of limit items that hold total items,
\* hasNextPage iff page < totalPages and hasPreviousPage iff page > 1, page
\* being the requested page.
C13_PageCounts ==
  ListCall
  => LET r == ListReturn
     IN /\ r.total = Cardinality(ListPassing)
        /\ r.page = ListPage
        /\ r.totalPages * ListLimit >= r.total
        /\ (r.totalPages - 1) * ListLimit < r.total
        /\ r.hasNextPage <=> ListPage < r.totalPages
        /\ r.hasPreviousPage <=> ListPage > 1

\* listPosts has just returned page 2 of the 2 pages of 3 posts, 2 a page
C13_Witness ==
  /\ last.op = "listPosts"
  /\ ListPage = 2 /\ ListLimit = 2
  /\ ListReturn.total = 3 /\ ListReturn.totalPages = 2
  /\ ~ListReturn.hasNextPage /\ ListReturn.hasPreviousPage

\* C14 as stated: on an empty store listUsers and listPosts return total 0,
\* totalPages 0 and both flags false, for every page and limit.
C14_EmptyStoreFlagsFalse ==
  (ListCall /\ DOMAIN ListStore = {})
  => LET r == ListReturn
     IN /\ r.total = 0 /\ r.totalPages = 0
        /\ ~r.hasNextPage /\ ~r.hasPreviousPage

\* C14 amended: on an empty store listUsers and listPosts return total 0,
\* totalPages 0, empty data and hasNextPage false, for every page and
\* limit; hasPreviousPage is false for page 1 and true for every later page.
C14_EmptyStore ==
  (ListCall /\ DOMAIN ListStore = {})
  => LET r == ListReturn
     IN /\ r.total = 0 /\ r.totalPages = 0 /\ r.data = <<>>
        /\ ~r.hasNextPage
        /\ r.hasPreviousPage <=> ListPage > 1

\* listPosts has just returned page 2 of the empty store
C14_Witness ==
  /\ last.op = "listPosts" /\ mockPosts = <<>>
  /\ ListPage = 2
  /\ ListReturn.hasPreviousPage

\* text contains search, letters compared without regard to case
TextHas(text, search) ==
  \E i \in 0..(Len(text) - Len(search)) :
    \A j \in 1..Len(search) :
      toLowerCase(<<text[i + j]>>) = toLowerCase(<<search[j]>>)

\* user u satisfies the filter called name, given with value v
UserSatisfies(u, name, v) ==
  CASE name = "search" ->
         \E text \in {u.name, u.email} \cup ({u.username} \ {Undefined}) :
           TextHas(Chars(text), v)
    [] name = "role" -> u.role = v
    [] name = "status" -> u.status = v
    [] name = "createdAfter" -> u.createdAt >= v
    [] name = "createdBefore" -> u.createdAt <= v

\* post p satisfies the filter called name, given with value v; a list of
\* no tags asks for no tag
PostSatisfies(p, name, v) ==
  CASE name = "search" ->
         \E text \in {p.title, p.content} \cup ({p.excerpt} \ {NullText}) :
           TextHas(text, v)
    [] name = "authorId" -> p.authorId = v
    [] name = "status" -> p.status = v
    [] name = "category" -> p.category = v
    [] name = "tags" ->
         v = <<>> \/ \E i \in 1..Len(v), j \in 1..Len(p.tags) : v[i] = p.tags[j]
    [] name = "published" -> p.published = v
    [] name = "publishedAfter" -> p.publishedAt # NullDate /\ p.publishedAt >= v
    [] name = "publishedBefore" -> p.publishedAt # NullDate /\ p.publishedAt <= v

\* the ids of the records that satisfy every filter given to the last call
SatisfyingAll ==
  LET filters == filtersOf(last.input)
  IN IF last.op = "listUsers"
     THEN {k \in DOMAIN mockUsers :
             \A name \in DOMAIN filters :
               UserSatisfies(mockUsers[k], name, filters[name])}
     ELSE {k \in DOMAIN mockPosts :
             \A name \in DOMAIN filters :
               PostSatisfies(mockPosts[k], name, filters[name])}

\* C15: listUsers and listPosts apply the given filters conjunctively: the
\* records they sort and count are exactly the records of the store that
\* satisfy every given filter (equality of a field, bounds of a date, any
\* one of the tags, search without regard to case in the text fields), and
\* with no filter every record of the store.
C15_FiltersConjunctive ==
  ListCall
  => /\ {sorted[i] : i \in 1..Len(sorted)} = SatisfyingAll
     /\ ListReturn.total = Cardinality(SatisfyingAll)
     /\ DOMAIN filtersOf(last.input) = {}
          => ListReturn.total = Cardinality(DOMAIN ListStore)

\* listPosts, asked for the published drafts, has just counted one post and
\* left out a draft that is not published
C15_Witness ==
  /\ last.op = "listPosts"
  /\ filtersOf(last.input) = [published |-> TRUE, status |-> "draft"]
  /\ ListReturn.total = 1
  /\ \E k \in DOMAIN mockPosts :
       mockPosts[k].status = "draft" /\ ~mockPosts[k].published

---------------------------------------------------------------------------
(* Properties of the sort of listUsers and listPosts.                     *)

ListSortBy == paginationOf(last.input).sortBy
ListSortOrder == paginationOf(last.input).sortOrder

\* the fields of the records by which the calls of the model sort
SortFields ==
  IF last.op = "listUsers"
  THEN {"createdAt", "updatedAt", "name", "email", "username"}
  ELSE {"createdAt", "updatedAt", "publishedAt", "viewCount", "title", "slug"}

\* a[sortBy] <= b[sortBy] as the language compares the two keys: false
\* whenever one of them is undefined
UserLeq(a, b, sortBy) ==
  CASE sortBy \in {"createdAt", "updatedAt"} -> a[sortBy] <= b[sortBy]
    [] sortBy \in {"name", "email"} -> ~UserTextGt[a[sortBy], b[sortBy]]
    [] sortBy = "username" ->
         /\ a.username # Undefined /\ b.username # Undefined
         /\ ~UserTextGt[a.username, b.username]

PostLeq(a, b, sortBy) ==
  CASE sortBy \in {"createdAt", "updatedAt", "publishedAt", "viewCount"} ->
         a[sortBy] <= b[sortBy]
    [] sortBy \in {"title", "slug"} -> ~StrGt(a[sortBy], b[sortBy])

\* the key of record i is <= the key of record j, both of the store that
\* the last call read
KeyLeq(i, j) ==
  IF last.op = "listUsers"
  THEN UserLeq(mockUsers[i], mockUsers[j], ListSortBy)
  ELSE PostLeq(mockPosts[i], mockPosts[j], ListSortBy)

\* C16: the records listUsers and listPosts return are ordered by the
\* sortBy field: with sortOrder asc the key of each is <= the key of the
\* next, with sortOrder desc the key of each is >= the key of the next.
C16_OrderedBySortBy ==
  (ListCall /\ ListSortBy \in SortFields)
  => \A i \in 1..(Len(sorted) - 1) :
       IF ListSortOrder = "asc"
       THEN KeyLeq(sorted[i], sorted[i + 1])
       ELSE KeyLeq(sorted[i + 1], sorted[i])

\* what the comparator of the last call returns for records i and j
ListCompare(i, j) ==
  IF last.op = "listUsers"
  THEN userCompare(mockUsers[i], mockUsers[j], ListSortBy, ListSortOrder)
  ELSE postCompare(mockPosts[i], mockPosts[j], ListSortBy, ListSortOrder)

\* C17: the sort of listUsers and listPosts is stable and three-way: for
\* two records with equal keys the comparator returns 0, and the one that
\* comes first in the store comes first in the result.
C17_StableThreeWay ==
  (ListCall /\ ListSortBy \in SortFields)
  => \A i, j \in 1..Len(sorted) :
       (i < j /\ KeyLeq(sorted[i], sorted[j]) /\ KeyLeq(sorted[j], sorted[i]))
         => /\ ListCompare(sorted[i], sorted[j]) = 0
            /\ sorted[i] < sorted[j]

---------------------------------------------------------------------------
(* Properties of the generated slug.                                      *)

\* the maximal runs of characters a-z and 0-9 of s, in order
RECURSIVE Words(_)
Words(s) ==
  IF s = <<>> THEN <<>>
  ELSE IF ~IsAlnum(Head(s)) THEN Words(Tail(s))
  ELSE LET n == CHOOSE n \in 1..Len(s) :
                  /\ \A i \in 1..n : IsAlnum(s[i])
                  /\ n = Len(s) \/ ~IsAlnum(s[n + 1])
       IN <<SubSeq(s, 1, n)>> \o Words(SubSeq(s, n + 1, Len(s)))

\* the words with one hyphen between each two
RECURSIVE Hyphenated(_)
Hyphenated(words) ==
  IF words = <<>> THEN <<>>
  ELSE IF Len(words) = 1 THEN words[1]
  ELSE words[1] \o <<"-">> \o Hyphenated(Tail(words))

\* C18: createPost called without a slug stores as slug the lower-cased
\* title with every maximal run of characters outside a-z and 0-9 replaced
\* by one hyphen and the hyphens at both ends removed, that is the title's
\* lower-cased runs of a-z and 0-9 with one hyphen between each two:
\* 'Hello World' gives 'hello-world'.
C18_GeneratedSlug ==
  (last.op = "createPost" /\ last.err = NoError /\ ~Has(last.input, "slug"))
  => LET slug == mockPosts[last.id].slug
     IN /\ slug = Hyphenated(Words(toLowerCase(last.input.title)))
        /\ \A i \in 1..Len(slug) : IsAlnum(slug[i]) \/ slug[i] = "-"
        /\ slug # <<>> => slug[1] # "-" /\ slug[Len(slug)] # "-"
        /\ \A i \in 1..(Len(slug) - 1) : ~(slug[i] = "-" /\ slug[i + 1] = "-")
        /\ last.input.title = TitleHelloWorld => slug = SlugHelloWorld

\* createPost has just stored 'hello-world' for the title 'Hello World'
C18_Witness ==
  /\ last.op = "createPost" /\ last.err = NoError
  /\ ~Has(last.input, "slug")
  /\ last.input.title = TitleHelloWorld
  /\ mockPosts[last.id].slug = SlugHelloWorld

---------------------------------------------------------------------------
(* Properties of the queries.                                             *)

QueryOps ==
  {"getUser", "getUserByEmail", "listUsers", "getPost", "listPosts",
   "getPostStats"}

\* this step is a call of a query
QueryCalled == calls' = calls + 1 /\ last'.op \in QueryOps

\* C19 as stated: a call of getUser, getUserByEmail, listUsers, getPost,
\* listPosts or getPostStats, whether it succeeds or fails, leaves the user
\* store and the post store unchanged.
C19_QueriesArePure ==
  [][QueryCalled => UNCHANGED <<mockUsers, mockPosts>>]_vars

\* C19 amended: a call of getUser, getUserByEmail, listUsers, listPosts or
\* getPostStats, and a call of getPost that fails, leaves the user store and
\* the post store unchanged; a call of getPost that succeeds adds 1 to the
\* viewCount of the post it returns and changes nothing else.
C19_QueriesChangeOnlyViewCount ==
  [][QueryCalled =>
       /\ mockUsers' = mockUsers
       /\ IF last'.op = "getPost" /\ last'.err = NoError
          THEN /\ last'.id \in DOMAIN mockPosts
               /\ mockPosts' =
                    [mockPosts EXCEPT ![last'.id].viewCount = @ + 1]
          ELSE mockPosts' = mockPosts]_vars

\* getPost has just returned the second seeded post, now viewed once, and
\* left the first as it was
C19_Witness ==
  /\ last.op = "getPost" /\ last.err = NoError /\ last.id = 4
  /\ mockPosts[4].viewCount = 1
  /\ mockPosts[2] = SeedPosts[2]

---------------------------------------------------------------------------
(* Properties of the route handler.                                       *)

\* C20: the route handler maps an error thrown by a procedure to a status
\* by its kind: 400 for a validation error, 404 for 'User not found' and
\* 'Post not found', 500 for every other error.
C20_ErrorStatusByKind ==
  (http.phase = "responded" /\ http.error # NoThrow)
  => http.status =
       (IF http.error.name = "ZodError" THEN 400
        ELSE IF http.error.message \in {"User not found", "Post not found"}
        THEN 404
        ELSE 500)

\* C21: a request whose first segment is not a resource of the router
\* (user, post), or whose second segment is not an operation of that
\* resource, is answered 404, no procedure having been called.
C21_UnknownPathIs404 ==
  (/\ http.phase = "responded"
   /\ Len(http.segments) >= 2
   /\ \/ http.segments[1] \notin DOMAIN appRouter
      \/ http.segments[2] \notin appRouter[http.segments[1]])
  => http.status = 404 /\ http.error = NoThrow

---------------------------------------------------------------------------
(* Properties of publishPost and of the view counter.                     *)

\* C22: after a successful publishPost(id, true) the post has published =
\* true, status 'published' and a publishedAt that is not null and is the
\* previous one if that was not null; after a successful
\* publishPost(id, false) it has published = false, status 'draft' and the
\* publishedAt it had.
C22_PublishSetsFlagStatusAndTime ==
  (last.op = "publishPost" /\ last.err = NoError)
  => LET old == before[last.id]
         new == mockPosts[last.id]
     IN IF last.input.published
        THEN /\ new.published /\ new.status = "published"
             /\ new.publishedAt # NullDate
             /\ old.publishedAt # NullDate => new.publishedAt = old.publishedAt
        ELSE /\ ~new.published /\ new.status = "draft"
             /\ new.publishedAt = old.publishedAt

\* publishPost(id, true) has just published again, later, a post that was
\* published before: it kept the earlier publishedAt
C22_Witness ==
  /\ last.op = "publishPost" /\ last.err = NoError
  /\ last.input.published
  /\ before[last.id].publishedAt # NullDate
  /\ mockPosts[last.id].publishedAt = before[last.id].publishedAt
  /\ mockPosts[last.id].updatedAt > mockPosts[last.id].publishedAt

---------------------------------------------------------------------------
(* Properties of the client's fetch wrapper.                              *)

ClientEnded == client.pc \in {"returned", "thrown"}

\* the attempts are bounded, and the wrapper ends with the response it got
\* or with the error of its last attempt
ClientBounded ==
  /\ client.attempts <=
       (IF client.enableRetries THEN client.maxRetries + 1 ELSE 1)
  /\ ClientEnded => client.attempts >= 1
  /\ (ClientEnded /\ ~client.enableRetries) => client.attempts = 1
  /\ client.pc = "returned"
       => client.outcome = "response" /\ client.response \in Statuses
  /\ client.pc = "thrown"
       => /\ client.outcome \in {"TypeError", "AbortError"}
          /\ client.outcome = client.lastError
          /\ client.response = 0

C24_RetryOnlyOnServerError ==
  /\ (Ok(client.response) \/ (client.response >= 400 /\ client.response < 500))
       => client.pc = "returned"
  /\ client.pc = "backoff"
       => /\ client.response = 0 \/ client.response >= 500
          /\ client.enableRetries
          /\ client.retries <= client.maxRetries

\* C25: whenever an attempt is in flight the abort timer is armed, and no
\* attempt is started with a signal that is already aborted.
C25_TimeoutCoversEveryAttempt ==
  client.pc = "inflight"
  => client.timer = "armed" /\ ~client.withAborted

\* C26: in every reachable state, the slug of every post of the store is a
\* valid slug of PostSchema: at least 3 characters, each of a-z, 0-9 or a
\* hyphen.
C26_StoredSlugsAreValid ==
  \A k \in DOMAIN mockPosts :
    LET slug == mockPosts[k].slug
    IN /\ Len(slug) >= 3
       /\ \A i \in 1..Len(slug) : IsAlnum(slug[i]) \/ slug[i] = "-"

---------------------------------------------------------------------------
(* Properties of the view counter.                                        *)

\* C27: the viewCount of a stored post is never negative and equals the
\* number of calls of getPost that have returned that post, whatever calls
\* of createPost, updatePost, publishPost, deletePost, listPosts and
\* getPostStats came in between; a post just created has viewCount 0.
C27_ViewCountCountsGetPost ==
  \A id \in DOMAIN mockPosts :
    /\ mockPosts[id].viewCount >= 0
    /\ mockPosts[id].viewCount = Views(id)

\* the second seeded post has been returned by getPost and then rewritten
\* by updatePost or publishPost, and still counts one view
C27_Witness ==
  /\ last.op \in {"updatePost", "publishPost"} /\ last.err = NoError
  /\ last.id = 4
  /\ Views(4) = 1
  /\ mockPosts[4].viewCount = 1

---------------------------------------------------------------------------
(* Properties of the pages of one list.                                   *)

\* what the same call returns for page p: the store, the filters, the limit
\* and the sort are those of the last call, and so is the array that the
\* sort leaves, Array.prototype.sort being a function of its array and its
\* comparator
ListReturnAt(p) ==
  LET pagination == Spread(Param(last.input, "pagination", <<>>), [page |-> p])
      input == Spread(last.input, [pagination |-> pagination])
  IN IF last.op = "listUsers"
     THEN listUsersReturn(mockUsers, input, sorted)
     ELSE listPostsReturn(mockPosts, input, sorted)

\* C28: the pages 1..totalPages of listUsers and of listPosts, requested
\* with the same limit, filters, sortBy and sortOrder on the same store, hold
\* every record that passes the filters exactly once and no other record,
\* also when records have equal sort keys.
C28_PagesPartitionTheRecords ==
  ListCall
  => LET pages == [p \in 1..ListReturn.totalPages |-> ListReturnAt(p).data]
         slots == {s \in (DOMAIN pages) \X (1..ListLimit) :
                     s[2] \in DOMAIN pages[s[1]]}
     IN /\ \A s \in slots : pages[s[1]][s[2]].id \in ListPassing
        /\ \A k \in ListPassing :
             Cardinality({s \in slots : pages[s[1]][s[2]].id = k}) = 1

\* listUsers has just returned one of 3 pages of 1 user, sorted by
\* createdAt, which two of the users share
C28_Witness ==
  /\ last.op = "listUsers"
  /\ ListLimit = 1 /\ ListSortBy = "createdAt"
  /\ ListReturn.totalPages = 3
  /\ \E a, b \in ListPassing :
       a # b /\ mockUsers[a].createdAt = mockUsers[b].createdAt

---------------------------------------------------------------------------
(* Properties of what the public reads reveal.                            *)

\* the stores that differ from users only in the users' email values, which
\* stay distinct
EmailVariants(users) ==
  { [k \in DOMAIN users |-> [users[k] EXCEPT !.email = e[k]]] :
      e \in {f \in [DOMAIN users -> Emails] :
               \A a, b \in DOMAIN users : a # b => f[a] # f[b]} }

\* what listUsers can return for input on the store users
ListUsersOutcomes(users, input) ==
  {listUsersReturn(users, input, arr) : arr \in usersSorted(users, input)}

\* C29: listUsers and getUser return the same result, the same data in the
\* same order with the same total, on two user stores that differ only in
\* the users' email values.
C29_PublicReadsHideEmail ==
  \A variant \in EmailVariants(mockUsers) :
    /\ last.op = "listUsers"
         => ListUsersOutcomes(variant, last.input)
              = ListUsersOutcomes(mockUsers, last.input)
    /\ last.op = "getUser"
         => getUserResult(variant, last.id) = getUserResult(mockUsers, last.id)

\* the part of C29 that is about getUser
C29_GetUserHidesEmail ==
  \A variant \in EmailVariants(mockUsers) :
    last.op = "getUser"
      => getUserResult(variant, last.id) = getUserResult(mockUsers, last.id)

---------------------------------------------------------------------------
(* Properties of requests handled at the same time.                       *)

\* request r has its handler's result, and the handler returned
Succeeded(r) ==
  inflight[r].pc \in {"settled", "done"} /\ inflight[r].err = NoError

\* C30: at most one handler runs at a time, so that nothing comes between a
\* handler's uniqueness check and its write, and of two requests handled at
\* the same time that call createUser with the same email, or createPost
\* with the same explicit slug, at most one succeeds.
C30_ConcurrentCreatesStayUnique ==
  /\ Cardinality({r \in Requests : inflight[r].pc = "running"}) <= 1
  /\ \A r, q \in Requests :
       (r # q /\ Succeeded(r) /\ Succeeded(q) /\ inflight[r].op = inflight[q].op)
       => IF inflight[r].op = "createUser"
          THEN inflight[r].input.email # inflight[q].input.email
          ELSE (Has(inflight[r].input, "slug") /\ Has(inflight[q].input, "slug"))
               => inflight[r].input.slug # inflight[q].input.slug

\* two createUser requests with the same email were both waiting for their
\* bodies; the handler of one returned and the handler of the other threw,
\* and neither is answered yet
C30_Witness ==
  \E r, q \in Requests :
    /\ r # q
    /\ inflight[r].pc = "settled" /\ inflight[q].pc = "settled"
    /\ inflight[r].op = "createUser" /\ inflight[q].op = "createUser"
    /\ inflight[r].input.email = inflight[q].input.email
    /\ inflight[r].err = NoError
    /\ inflight[q].err = "Email already exists"

=============================================================================
